---- MODULE Spec2Model ----
(***************************************************************************)
(* The on-chain gas poller (services/poller/cmd/poller/main.go): startup,  *)
(* the scan loop of main and the watch-request consumer goroutine that     *)
(* shares the `targets` map with it.                                       *)
(***************************************************************************)
EXTENDS Integers, Sequences, FiniteSets, TLC

\* ------------------------------------------------------------------ bounds
\* Block numbers the RPC endpoint answers a head read with: 0..MaxHead.
MaxHead == 2
\* Watch-request messages the consumer group delivers during one run.
MaxMsgs == 2

\* ------------------------------------------------------- strings and keys
\* strings.ToLower, one character.
Lower(c) ==
    CASE c = "A" -> "a"
      [] c = "B" -> "b"
      [] OTHER -> c

\* strings.ToLower on a string (a sequence of characters).
ToLower(s) == [i \in DOMAIN s |-> Lower(s[i])]

\* A string is in lower-case form when it has no upper-case character.
IsLower(s) == \A i \in DOMAIN s : s[i] \notin {"A", "B"}

\* Two strings are equal up to letter case.
EqualFold(s, t) == Len(s) = Len(t) /\ \A i \in DOMAIN s : Lower(s[i]) = Lower(t[i])

\* tx.To() == nil: a contract-creation transaction.
NoRecipient == <<>>

\* What tx.To().Hex() yields (mixed-case checksummed hex) for the recipients
\* that occur on the modelled chain.
RecipientHex == { <<"A", "b">>, <<"b", "B">> }

\* ------------------------------------------------------------ environment
EnvKeys == {"KAFKA_BROKER", "KAFKA_TOPIC", "ETH_RPC_URL", "TENANT_ID", "API_BASE"}

\* The four values the interface section calls required.
RequiredKeys == {"KAFKA_BROKER", "KAFKA_TOPIC", "ETH_RPC_URL", "TENANT_ID"}

\* getenv(key, def): the variable's value, or def when it is unset or empty.
getenv(e, key, def) == IF e[key] = "" THEN def ELSE e[key]

\* The value a set variable carries in the modelled environments.
EnvValue(key) ==
    CASE key = "KAFKA_BROKER" -> "broker:9092"
      [] key = "KAFKA_TOPIC"  -> "gas-events"
      [] key = "ETH_RPC_URL"  -> "http://rpc"
      [] key = "TENANT_ID"    -> "t1"
      [] OTHER                -> "http://api"

\* Environments: each required variable set or absent, API_BASE absent.
Environments ==
    { [k \in EnvKeys |-> IF k \in S THEN EnvValue(k) ELSE ""] : S \in SUBSET RequiredKeys }

FullEnvironment == [k \in EnvKeys |-> IF k \in RequiredKeys THEN EnvValue(k) ELSE ""]

\* ------------------------------------------------------- map[string]bool
EmptyMap == [k \in {} |-> TRUE]

\* m[k] with Go's zero value for a missing key.
MapGet(m, k) == IF k \in DOMAIN m THEN m[k] ELSE FALSE

\* m[k] = v
MapSet(m, k, v) == [x \in (DOMAIN m) \cup {k} |-> IF x = k THEN v ELSE m[x]]

\* delete(m, k)
MapDelete(m, k) == [x \in (DOMAIN m) \ {k} |-> m[x]]

\* for _, it := range items { targets[ToLower(it.Contract)] = true }
RECURSIVE SeedWatches(_, _)
SeedWatches(m, items) ==
    IF items = <<>> THEN m
    ELSE SeedWatches(MapSet(m, ToLower(Head(items)), TRUE), Tail(items))

\* Answers of the bootstrap GET: a transport error, or the decoded items.
BootstrapReplies ==
    { [err |-> TRUE,  items |-> <<>>],
      [err |-> FALSE, items |-> <<>>],
      [err |-> FALSE, items |-> << <<"A", "b">>, <<"a", "B">> >>] }

\* ------------------------------------------------------------------ chain
TxCreate == [to |-> NoRecipient]
TxA      == [to |-> <<"A", "b">>]
TxB      == [to |-> <<"b", "B">>]

\* blk.Transactions() of the blocks the RPC endpoint serves.
BlockBodies ==
    { <<>>, <<TxCreate, TxB>>, <<TxA, TxA>> }

\* blk.BaseFee() of a block whose header carries no base fee: a nil *big.Int.
NoBaseFee == -1

\* The blocks the RPC endpoint serves: the bodies above under a header with a base
\* fee, and one block from before the fee market, whose header has none.
ChainBlocks ==
    { [txs |-> body, baseFee |-> 1] : body \in BlockBodies }
        \cup { [txs |-> << TxA >>, baseFee |-> NoBaseFee] }

\* ------------------------------------------------------ watch requests
\* Decoded watch-request payloads: add and remove for this tenant, an action the
\* handler does not know, another tenant's request, and a malformed message (which
\* decodes to empty fields).
Payloads ==
    { [tenantId |-> "t1", contract |-> <<"a", "B">>, action |-> "add"],
      [tenantId |-> "t1", contract |-> <<"a", "B">>, action |-> "remove"],
      [tenantId |-> "t1", contract |-> <<"a", "B">>, action |-> "pause"],
      [tenantId |-> "t2", contract |-> <<"a", "B">>, action |-> "add"],
      [tenantId |-> "",   contract |-> <<>>,          action |-> ""] }

VARIABLES
    pc,         \* where main is
    env,        \* the process environment
    broker, topic, rpcURL, tenant,   \* main's configuration locals
    targets,    \* the shared map[string]bool
    head,       \* number of the head block most recently read
    last,       \* the cursor
    bn,         \* block number of the range loop
    blk,        \* the block being scanned: [number, txs, baseFee]
    ti,         \* index into blk.txs of the transaction being examined
    rd,         \* the map read in progress: [key, raced, same]
    spc,        \* where the consumer goroutine is
    smsg,       \* the payload it is handling
    consumed,   \* messages delivered so far
    marked,     \* messages marked so far
    \* history
    started,    \* the head read at line 99 (the initial cursor); -1 before it
    maxHead,    \* highest head number read so far
    requested,  \* block numbers fetched by number, in order
    published,  \* SendMessage calls, in order
    scanned,    \* what happened to each transaction of blk examined so far
    snap,       \* keys watched when blk was fetched
    rmBefore,   \* keys removed before blk was fetched and not added since
    rmSince,    \* keys removed after blk was fetched and not added since
    boot,       \* the bootstrap fetch: "pending", "failed" or "loaded" (recorded
                \* when tracing)
    failed,     \* block numbers whose fetch failed (recorded when tracing)
    fatalAt,    \* the step at which log.Fatal ended the process; "" while it runs
    sendFailed, \* [blockNumber, txIndex] of the events whose SendMessage returned an
                \* error (recorded when tracing)
    regTrace,   \* registry mutations applied (recorded when tracing)
    watching,   \* spellings registered and not removed since (recorded when tracing)
    received,   \* payloads delivered to the handler, in order (recorded when tracing)
    markTrace,  \* positions in received of the messages marked (recorded when tracing)
    tracing,
    \* one event on its own
    ein,        \* a transaction, its receipt and its block's base fee
    eout,       \* what lines 134-188 make of it
    \* the API service's sign-in
    nonceStore, \* the Map from lower-case address to the nonce issued for it
    issues,     \* [address, nonce] set by /auth/nonce, in order
    verifs,     \* the /auth/verify requests: [msg, stage, issue, ord]
    checks      \* nonce checks made so far

vars == << pc, env, broker, topic, rpcURL, tenant, targets, head, last, bn, blk, ti,
           rd, spc, smsg, consumed, marked, started, maxHead, requested, published,
           scanned, snap, rmBefore, rmSince, boot, failed, fatalAt, sendFailed, regTrace, watching, received, markTrace, tracing, ein, eout,
           nonceStore, issues, verifs, checks >>

cfgVars  == << env, broker, topic, rpcURL, tenant >>
scanVars == << head, last, bn, blk, ti, rd >>
subVars  == << spc, smsg, consumed, marked >>
histVars == << started, maxHead, requested, published, scanned, snap, rmBefore, rmSince >>
traceVars == << regTrace, watching, received, markTrace, tracing >>
evVars == << ein, eout >>
authVars == << nonceStore, issues, verifs, checks >>
ghostVars == << boot, failed, fatalAt, sendFailed >>

NoBlock == [number |-> 0, txs |-> <<>>, baseFee |-> NoBaseFee]
NoRead  == [key |-> <<>>, raced |-> FALSE, same |-> FALSE]
NoInput == [ to |-> <<>>, data |-> <<>>, recPrice |-> 0, txPrice |-> 0, baseFee |-> 0,
             gasUsed |-> 0, senderOk |-> FALSE ]
NoMessage == [topic |-> "", key |-> <<>>, value |-> <<>>]
NoOutput == [status |-> "none", msg |-> NoMessage]
NoMsg   == [tenantId |-> "", contract |-> <<>>, action |-> "", key |-> <<>>]

\* The process is running (neither exited by log.Fatal nor aborted by the runtime,
\* be it for a racing map access or for a panic).
Alive == pc \notin {"fatal", "crashed"}

WatchedKeys(m) == { k \in DOMAIN m : m[k] }

StartState(e, t) ==
    /\ pc = "config"
    /\ env = e
    /\ broker = "" /\ topic = "" /\ rpcURL = "" /\ tenant = ""
    /\ targets = EmptyMap
    /\ head = 0 /\ last = 0 /\ bn = 0 /\ blk = NoBlock /\ ti = 0 /\ rd = NoRead
    /\ spc = "off" /\ smsg = NoMsg /\ consumed = 0 /\ marked = 0
    /\ started = -1 /\ maxHead = 0
    /\ requested = <<>> /\ published = <<>> /\ scanned = <<>>
    /\ snap = {} /\ rmBefore = {} /\ rmSince = {}
    /\ boot = "pending" /\ failed = {} /\ fatalAt = "" /\ sendFailed = {}
    /\ regTrace = <<>> /\ watching = {} /\ received = <<>> /\ markTrace = <<>>
    /\ tracing = t
    /\ ein = NoInput /\ eout = NoOutput
    /\ nonceStore = EmptyMap /\ issues = <<>> /\ verifs = <<>> /\ checks = 0

Init == StartState(FullEnvironment, FALSE)

\* -------------------------------------------------------------- startup
\* The step a log.Fatal is charged to, once main has moved to p.
FatalStep(p, step) == IF p = "fatal" THEN step ELSE ""

\* main, lines 30-38: read the configuration; log.Fatal unless ETH_RPC_URL and
\* TENANT_ID are set.
Configure ==
    /\ pc = "config"
    /\ broker' = getenv(env, "KAFKA_BROKER", "kafka:9092")
    /\ topic' = getenv(env, "KAFKA_TOPIC", "onchain-gas")
    /\ rpcURL' = getenv(env, "ETH_RPC_URL", "")
    /\ tenant' = getenv(env, "TENANT_ID", "")
    /\ pc' = IF rpcURL' = "" \/ tenant' = "" THEN "fatal" ELSE "bootstrap"
    /\ fatalAt' = FatalStep(pc', "config")
    /\ UNCHANGED << env, targets, scanVars, subVars, histVars, traceVars, evVars, boot, failed,
                    sendFailed, authVars >>

\* The bootstrap's error ending the process.
AfterBootstrapFatal(err) == IF err THEN "fatal" ELSE "dial"

\* main, lines 46-49 and 60: the closure returns on an error as at its end, and
\* main goes on to dial.
AfterBootstrap(err) == "dial"

\* main, lines 40-60: seed targets from the API's answer; an error is only logged.
Bootstrap ==
    /\ pc = "bootstrap"
    /\ \E r \in BootstrapReplies :
          /\ targets' = IF r.err THEN targets ELSE SeedWatches(targets, r.items)
          /\ watching' = IF tracing /\ ~r.err
                             THEN watching \cup { r.items[i] : i \in DOMAIN r.items }
                             ELSE watching
          /\ boot' = IF ~tracing THEN boot ELSE IF r.err THEN "failed" ELSE "loaded"
          /\ pc' = AfterBootstrap(r.err)
    /\ fatalAt' = FatalStep(pc', "bootstrap")
    /\ UNCHANGED << cfgVars, scanVars, subVars, histVars, regTrace, received, markTrace,
                    tracing, evVars, failed, sendFailed, authVars >>

\* main, lines 62-66: ethclient.Dial.
DialRPC ==
    /\ pc = "dial"
    /\ \E ok \in BOOLEAN : pc' = IF ok THEN "producer" ELSE "fatal"
    /\ fatalAt' = FatalStep(pc', "dial")
    /\ UNCHANGED << cfgVars, targets, scanVars, subVars, histVars, traceVars, evVars, boot, failed,
                    sendFailed, authVars >>

\* main, lines 68-74: sarama.NewSyncProducer.
NewProducer ==
    /\ pc = "producer"
    /\ \E ok \in BOOLEAN : pc' = IF ok THEN "consumer" ELSE "fatal"
    /\ fatalAt' = FatalStep(pc', "producer")
    /\ UNCHANGED << cfgVars, targets, scanVars, subVars, histVars, traceVars, evVars, boot, failed,
                    sendFailed, authVars >>

\* main, lines 77-91: sarama.NewConsumerGroup, then the consumer goroutine is started.
NewConsumer ==
    /\ pc = "consumer"
    /\ \E ok \in BOOLEAN :
          /\ pc' = IF ok THEN "netid" ELSE "fatal"
          /\ spc' = IF ok THEN "idle" ELSE spc
    /\ fatalAt' = FatalStep(pc', "consumer")
    /\ UNCHANGED << cfgVars, targets, scanVars, smsg, consumed, marked, histVars, traceVars,
                    evVars, boot, failed,
                    sendFailed, authVars >>

\* main, lines 93-97: client.NetworkID.
NetworkID ==
    /\ pc = "netid"
    /\ \E ok \in BOOLEAN : pc' = IF ok THEN "inithead" ELSE "fatal"
    /\ fatalAt' = FatalStep(pc', "netid")
    /\ UNCHANGED << cfgVars, targets, scanVars, subVars, histVars, traceVars, evVars, boot, failed,
                    sendFailed, authVars >>

\* The cursor started one block behind the head.
InitCursorBehind(h) == IF h > 0 THEN h - 1 ELSE 0

\* main, line 103: last := head.Number().Uint64()
InitCursor(h) == h

\* The scan loop entered although the initial head could not be read.
AfterHeadErrorScan == "poll"

\* main, lines 100-102: logpkg.Fatalf("get head: %v", err)
AfterHeadError == "fatal"

\* main, lines 98-103: read the head once and start the cursor there.
InitHead ==
    /\ pc = "inithead"
    /\ \/ /\ pc' = AfterHeadError
          /\ UNCHANGED << head, last, started, maxHead >>
       \/ \E h \in 0..MaxHead :
             /\ head' = h
             /\ last' = InitCursor(h)
             /\ started' = h
             /\ maxHead' = h
             /\ pc' = "poll"
    /\ fatalAt' = FatalStep(pc', "inithead")
    /\ UNCHANGED << cfgVars, targets, bn, blk, ti, rd, subVars, requested, published,
                    scanned, snap, rmBefore, rmSince, traceVars, evVars, boot, failed,
                    sendFailed, authVars >>

\* ------------------------------------------------------------ scan loop
\* The idle test written with == instead of <=.
NothingNewOnlyEqual(h, l) == h = l

\* main, line 112: head.Number().Uint64() <= last
NothingNew(h, l) == h <= l

\* main, line 116: bn := last + 1
FirstBlock(l) == l + 1

\* The range loop stepping by two.
NextBlockSkipping(n) == n + 2

\* main, line 116: bn++
NextBlock(n) == n + 1

\* The cursor left one block short of the head it scanned up to.
NewCursorShort(h) == h - 1

\* main, line 191: last = head.NumberU64()
NewCursor(h) == h

Max(a, b) == IF a >= b THEN a ELSE b

\* main, lines 106-116: read the head; on an error or when nothing is new, sleep and
\* poll again; otherwise start the range at last + 1.
PollHead ==
    /\ pc = "poll"
    /\ \/ UNCHANGED << pc, head, bn, maxHead >>
       \/ \E h \in 0..MaxHead :
             /\ head' = h
             /\ maxHead' = Max(maxHead, h)
             /\ IF NothingNew(h, last)
                   THEN UNCHANGED << pc, bn >>
                   ELSE /\ bn' = FirstBlock(last)
                        /\ pc' = "fetch"
    /\ UNCHANGED << cfgVars, targets, last, blk, ti, rd, subVars, started, requested,
                    published, scanned, snap, rmBefore, rmSince, traceVars,
                    evVars, ghostVars, authVars >>

\* A failed fetch leaving the range loop.
AfterFetchErrorBreak(n, h) == h + 1

\* main, lines 118-121: a failed fetch is logged and the loop continues with bn++.
AfterFetchError(n, h) == NextBlock(n)

\* main, lines 116-121: fetch block bn; a failed fetch moves on to the next number.
FetchBlock ==
    /\ pc = "fetch"
    /\ bn <= head
    /\ requested' = Append(requested, bn)
    /\ \/ /\ bn' = AfterFetchError(bn, head)
          /\ failed' = IF tracing THEN failed \cup {bn} ELSE failed
          /\ UNCHANGED << pc, blk, ti, scanned, snap, rmBefore, rmSince >>
       \/ \E b \in ChainBlocks :
             /\ blk' = [number |-> bn, txs |-> b.txs, baseFee |-> b.baseFee]
             /\ ti' = 1
             /\ pc' = "tx"
             /\ scanned' = <<>>
             /\ snap' = WatchedKeys(targets)
             /\ UNCHANGED << bn, rmBefore, rmSince, failed >>
    /\ UNCHANGED << cfgVars, targets, head, last, rd, subVars, started, maxHead,
                    published, traceVars, evVars, boot, fatalAt, sendFailed,
                    authVars >>

\* main, lines 116 and 191: the range is exhausted; the cursor takes the head read
\* at the top of this iteration, and bn goes out of scope.
EndRange ==
    /\ pc = "fetch"
    /\ bn > head
    /\ last' = NewCursor(head)
    /\ bn' = 0
    /\ pc' = "poll"
    /\ UNCHANGED << cfgVars, targets, head, blk, ti, rd, subVars, histVars, traceVars,
                    evVars, ghostVars, authVars >>

\* main, line 126: to := strings.ToLower(tx.To().Hex())
RecipientKey(to) == ToLower(to)

\* main, lines 126-127: whether a recipient is watched.
Contains(m, to) == MapGet(m, RecipientKey(to))

\* What the loop body did with one transaction.
Examined(i, to, key, present, clean, same, found, receipt) ==
    [ idx |-> i, to |-> to, key |-> key, present |-> present, clean |-> clean,
      same |-> same, found |-> found, receipt |-> receipt,
      rmBefore |-> key \in rmBefore, rmAfter |-> key \in snap /\ key \in rmSince ]

\* main, lines 122-127: take the next transaction; a contract creation is skipped,
\* otherwise the recipient is lower-cased and the read of targets begins.
NextTx ==
    /\ pc = "tx"
    /\ ti <= Len(blk.txs)
    /\ LET to == blk.txs[ti].to IN
       IF to = NoRecipient
          THEN /\ scanned' = Append(scanned,
                       Examined(ti, to, <<>>, FALSE, TRUE, FALSE, FALSE, "none"))
               /\ ti' = ti + 1
               /\ UNCHANGED << pc, rd >>
          ELSE /\ rd' = [ key |-> RecipientKey(to),
                          raced |-> spc = "apply",
                          same |-> spc = "apply" /\ smsg.key = RecipientKey(to) ]
               /\ pc' = "lookup"
               /\ UNCHANGED << ti, scanned >>
    /\ UNCHANGED << cfgVars, targets, head, last, bn, blk, subVars, started, maxHead,
                    requested, published, snap, rmBefore, rmSince, traceVars,
                    evVars, ghostVars, authVars >>

\* main, lines 122 and 116: the block's transactions are exhausted; blk goes out
\* of scope.
EndBlock ==
    /\ pc = "tx"
    /\ ti > Len(blk.txs)
    /\ bn' = NextBlock(bn)
    /\ blk' = NoBlock
    /\ ti' = 0
    /\ pc' = "fetch"
    /\ scanned' = <<>>
    /\ snap' = {}
    /\ rmBefore' = rmBefore \cup rmSince
    /\ rmSince' = {}
    /\ UNCHANGED << cfgVars, targets, head, last, rd, subVars, started, maxHead,
                    requested, published, traceVars, evVars,
                    ghostVars, authVars >>

\* main, lines 171-188: the message handed to producer.SendMessage.
Event(key) ==
    [ tenantId |-> tenant, contract |-> key, blockNumber |-> blk.number, txIndex |-> ti ]

\* What a read of targets[key] may yield.  A read that overlapped a write of the
\* map is a data race: it may yield either value.
ReadResults(m, r) == IF r.raced THEN BOOLEAN ELSE {MapGet(m, r.key)}

\* What client.TransactionReceipt may answer for a watched transaction; it is not
\* called for the others (line 128).
ReceiptAnswers(found) == IF found THEN {"ok", "err"} ELSE {"none"}

\* A failed receipt fetch leaving the block's transaction loop.
AfterReceiptErrorBreak(i, n) == n + 1

\* main, lines 130-133: a failed receipt fetch continues with the next transaction.
AfterReceiptError(i, n) == i + 1

\* What producer.SendMessage may return for the event of a transaction whose
\* receipt was obtained: TRUE for a nil error.  It is not called for the others.
SendAnswers(receipt) == IF receipt = "ok" THEN BOOLEAN ELSE {TRUE}

\* A failed send tried a second time.
SendAttemptsRetry(sent) == IF sent THEN 1 ELSE 2

\* main, line 188: _, _, _ = producer.SendMessage(msg), one call whatever it returns.
SendAttempts(sent) == 1

\* main, lines 154-155: new(big.Int).Sub(effPriceWei, baseFeeWei) dereferences
\* its operands, so a nil base fee makes it panic.
SubPanics(baseFee) == baseFee = NoBaseFee

\* main, lines 127-189: the read of targets[to] completes; a watched recipient's
\* receipt is fetched and, when that succeeds, the fees are computed and one
\* message is sent, whose outcome the code discards.  A racing read may also make
\* the runtime abort the process ("concurrent map read and map write"), and the
\* fee computation panics on a block without a base fee.
Lookup ==
    /\ pc = "lookup"
    /\ \/ /\ rd.raced
          /\ pc' = "crashed"
          /\ UNCHANGED << ti, rd, scanned, published, sendFailed >>
       \/ \E found \in ReadResults(targets, rd) :
          \E receipt \in ReceiptAnswers(found) :
          \E sent \in SendAnswers(receipt) :
             IF receipt = "ok" /\ SubPanics(blk.baseFee)
                THEN /\ pc' = "crashed"
                     /\ UNCHANGED << ti, rd, scanned, published, sendFailed >>
                ELSE /\ scanned' = Append(scanned,
                           Examined(ti, blk.txs[ti].to, rd.key, MapGet(targets, rd.key),
                                    ~rd.raced, rd.same, found, receipt))
                     /\ published' =
                           IF receipt = "ok"
                              THEN published \o [k \in 1..SendAttempts(sent) |-> Event(rd.key)]
                              ELSE published
                     /\ sendFailed' =
                           IF tracing /\ receipt = "ok" /\ ~sent
                              THEN sendFailed \cup {[blockNumber |-> blk.number, txIndex |-> ti]}
                              ELSE sendFailed
                     /\ ti' = IF receipt = "err"
                                 THEN AfterReceiptError(ti, Len(blk.txs))
                                 ELSE ti + 1
                     /\ rd' = NoRead
                     /\ pc' = "tx"
    /\ UNCHANGED << cfgVars, targets, head, last, bn, blk, subVars, started, maxHead,
                    requested, snap, rmBefore, rmSince, traceVars,
                    evVars, boot, failed, fatalAt, authVars >>

\* ------------------------------------------------- watch-request consumer
\* The address left as the request spells it.
WatchKeyRaw(contract) == contract

\* ConsumeClaim, line 208: address := strings.ToLower(payload.Contract)
WatchKey(contract) == ToLower(contract)

\* "remove" written as an assignment of false instead of a delete.
ApplyActionUnset(m, action, address) ==
    IF action = "add" THEN MapSet(m, address, TRUE)
    ELSE IF action = "remove" THEN MapSet(m, address, FALSE)
    ELSE m

\* ConsumeClaim, lines 209-213.
ApplyAction(m, action, address) ==
    IF action = "add" THEN MapSet(m, address, TRUE)
    ELSE IF action = "remove" THEN MapDelete(m, address)
    ELSE m

\* Every request taken as this tenant's.
ForAnyTenant(p, t) == TRUE

\* ConsumeClaim, line 207: if payload.TenantId != h.tenant { continue }
ForTenant(p, t) == p.tenantId = t

\* The handler marking a request without writing the map.
MarkOnly(action) == "mark"

\* ConsumeClaim, lines 209-214: add and remove write the map and then the message
\* is marked; any other action is only marked.
HandlerStep(action) == IF action \in {"add", "remove"} THEN "apply" ELSE "mark"

\* ConsumeClaim, lines 200-209: take a message, decode it, drop it when it is for
\* another tenant, lower-case its address; for add/remove the write of the map begins.
SubReceive ==
    /\ Alive
    /\ spc = "idle"
    /\ consumed < MaxMsgs
    /\ consumed' = consumed + 1
    /\ \E p \in Payloads :
          /\ received' = IF tracing THEN Append(received, p) ELSE received
          /\ IF ~ForTenant(p, tenant)
                THEN UNCHANGED << spc, smsg, rd >>
                ELSE /\ smsg' = [ tenantId |-> p.tenantId, contract |-> p.contract,
                                  action |-> p.action, key |-> WatchKey(p.contract) ]
                     /\ spc' = HandlerStep(p.action)
                     /\ rd' = IF spc' = "apply" /\ pc = "lookup"
                                 THEN [ rd EXCEPT !.raced = TRUE,
                                           !.same = @ \/ WatchKey(p.contract) = rd.key ]
                                 ELSE rd
    /\ UNCHANGED << pc, cfgVars, targets, head, last, bn, blk, ti, marked, histVars,
                    regTrace, watching, markTrace, tracing, evVars,
                    ghostVars, authVars >>

\* ConsumeClaim, lines 210 and 212: the write of the map takes effect.
SubApply ==
    /\ Alive
    /\ spc = "apply"
    /\ LET address == smsg.key
           inBlock == pc \in {"tx", "lookup"}
       IN  /\ targets' = ApplyAction(targets, smsg.action, address)
           /\ IF smsg.action = "remove"
                 THEN /\ rmSince' = IF inBlock THEN rmSince \cup {address} ELSE rmSince
                      /\ rmBefore' = IF inBlock THEN rmBefore ELSE rmBefore \cup {address}
                 ELSE /\ rmSince' = rmSince \ {address}
                      /\ rmBefore' = rmBefore \ {address}
           /\ regTrace' = IF tracing
                             THEN Append(regTrace, [ seq |-> consumed,
                                                     action |-> smsg.action,
                                                     contract |-> smsg.contract,
                                                     before |-> targets,
                                                     after |-> targets' ])
                             ELSE regTrace
           /\ watching' = IF ~tracing THEN watching
                          ELSE IF smsg.action = "add" THEN watching \cup {smsg.contract}
                          ELSE { w \in watching : ~EqualFold(w, smsg.contract) }
    /\ spc' = "mark"
    /\ UNCHANGED << pc, cfgVars, scanVars, smsg, consumed, marked, started, maxHead,
                    requested, published, scanned, snap, received, markTrace, tracing,
                    evVars, ghostVars, authVars >>

\* ConsumeClaim, line 214: s.MarkMessage(msg, "")
SubMark ==
    /\ Alive
    /\ spc = "mark"
    /\ marked' = marked + 1
    /\ markTrace' = IF tracing THEN Append(markTrace, consumed) ELSE markTrace
    /\ smsg' = NoMsg
    /\ spc' = "idle"
    /\ UNCHANGED << pc, cfgVars, targets, scanVars, consumed, histVars, regTrace, watching,
                    received, tracing, evVars, ghostVars, authVars >>

Next ==
    \/ Configure \/ Bootstrap \/ DialRPC \/ NewProducer \/ NewConsumer \/ NetworkID
    \/ InitHead \/ PollHead \/ FetchBlock \/ EndRange \/ NextTx \/ EndBlock \/ Lookup
    \/ SubReceive \/ SubApply \/ SubMark

Spec == Init /\ [][Next]_vars

\* The main goroutine keeps running: every call it makes returns, so each step of
\* the range loop that can be taken is taken.
ScanFairness ==
    /\ WF_vars(FetchBlock) /\ WF_vars(EndRange) /\ WF_vars(NextTx)
    /\ WF_vars(EndBlock) /\ WF_vars(Lookup)

SpecLive == Spec /\ ScanFairness

\* Startup and the consumer goroutine alone, from any environment, with the
\* registry's mutations recorded.
InitStartup == \E e \in Environments : StartState(e, TRUE)

NextStartup ==
    \/ Configure \/ Bootstrap \/ DialRPC \/ NewProducer \/ NewConsumer \/ NetworkID
    \/ InitHead \/ SubReceive \/ SubApply \/ SubMark

SpecStartup == InitStartup /\ [][NextStartup]_vars

\* Startup and the scan loop with no watch request delivered, the failed block
\* fetches recorded.
InitScan == StartState(FullEnvironment, TRUE)

NextScan ==
    \/ Configure \/ Bootstrap \/ DialRPC \/ NewProducer \/ NewConsumer \/ NetworkID
    \/ InitHead \/ PollHead \/ FetchBlock \/ EndRange \/ NextTx \/ EndBlock \/ Lookup

SpecScan == InitScan /\ [][NextScan]_vars

\* ------------------------------------------------- event of one transaction
\* Bounds of the transactions an event is built from.
MaxDataLen == 5
MaxWei == 3
MaxGas == 2

\* Digits of the two divisors, 1e9 (line 158) and 1e18 (line 166), and mantissa
\* bits of a big.Float made by SetInt (64) and of a float64 (53), scaled down
\* together so that every product stays a machine integer.
GweiDigits == 1
EthDigits == 2
BigPrec == 6
DoublePrec == 4

RECURSIVE Pow(_, _)
Pow(b, k) == IF k = 0 THEN 1 ELSE b * Pow(b, k - 1)

\* x.BitLen()
RECURSIVE BitLen(_)
BitLen(x) == IF x = 0 THEN 0 ELSE 1 + BitLen(x \div 2)

\* A float is the dyadic rational num / den it holds, in lowest terms.
RECURSIVE Dyadic(_, _)
Dyadic(num, den) ==
    IF den > 1 /\ num % 2 = 0 THEN Dyadic(num \div 2, den \div 2)
    ELSE [num |-> num, den |-> den]

\* Least s >= 0 with n * 2^s / d >= 2^(prec-1), for n > 0.
RECURSIVE ShiftUp(_, _, _, _)
ShiftUp(n, d, prec, s) ==
    IF n * Pow(2, s) >= d * Pow(2, prec - 1) THEN s ELSE ShiftUp(n, d, prec, s + 1)

\* Least t >= 0 with n / (d * 2^t) < 2^prec, for n > 0.
RECURSIVE ShiftDown(_, _, _, _)
ShiftDown(n, d, prec, t) ==
    IF n < d * Pow(2, t) * Pow(2, prec) THEN t ELSE ShiftDown(n, d, prec, t + 1)

\* n / d rounded to an integer, ties to even (big.ToNearestEven), for n >= 0.
NearestEven(n, d) ==
    LET q == n \div d
        r == n % d
    IN  IF 2 * r > d \/ (2 * r = d /\ q % 2 = 1) THEN q + 1 ELSE q

\* n / d (n >= 0, d > 0) rounded to prec mantissa bits.
RoundPos(n, d, prec) ==
    IF n = 0 THEN Dyadic(0, 1)
    ELSE LET t == ShiftDown(n, d, prec, 0) IN
         IF t > 0 THEN Dyadic(NearestEven(n, d * Pow(2, t)) * Pow(2, t), 1)
         ELSE LET s == ShiftUp(n, d, prec, 0) IN
              Dyadic(NearestEven(n * Pow(2, s), d), Pow(2, s))

\* n / d (d > 0) rounded to prec mantissa bits, the sign kept.
Round(n, d, prec) ==
    IF n < 0 THEN LET a == RoundPos(0 - n, d, prec) IN [num |-> 0 - a.num, den |-> a.den]
    ELSE RoundPos(n, d, prec)

\* new(big.Float).SetInt(x): exact, with precision max(x.BitLen(), 64).
SetIntPrec(x) == IF BitLen(x) > BigPrec THEN BitLen(x) ELSE BigPrec

\* f.Float64(): the float64 nearest to f.
Float64(f) == Round(f.num, f.den, DoublePrec)

\* new(big.Float).Quo(new(big.Float).SetInt(x), big.NewFloat(10^digits)).Float64()
QuoFloat64(x, digits) ==
    LET a == IF x < 0 THEN 0 - x ELSE x
    IN  Float64(Round(x, Pow(10, digits), SetIntPrec(a)))

\* hex.EncodeToString
HexDigits ==
    << "0", "1", "2", "3", "4", "5", "6", "7", "8", "9", "a", "b", "c", "d", "e", "f" >>

HexByte(b) == << HexDigits[(b \div 16) + 1], HexDigits[(b % 16) + 1] >>

RECURSIVE EncodeToString(_)
EncodeToString(bytes) ==
    IF bytes = <<>> THEN <<>> ELSE HexByte(Head(bytes)) \o EncodeToString(Tail(bytes))

\* The selector made of all the call data.
MethodSigWhole(data) ==
    IF Len(data) >= 4 THEN << "0", "x" >> \o EncodeToString(data) ELSE <<>>

\* main, lines 143-146: "0x" + hex of data[:4] when len(data) >= 4, else "".
MethodSig(data) ==
    IF Len(data) >= 4 THEN << "0", "x" >> \o EncodeToString(SubSeq(data, 1, 4)) ELSE <<>>

\* rec.EffectiveGasPrice of a receipt that carries none: a nil *big.Int.
NoEffectivePrice == -1

\* main, lines 148-153: the receipt's effective price, else the transaction's gas price.
EffPriceWei(recPrice, txPrice) == IF recPrice # NoEffectivePrice THEN recPrice ELSE txPrice

\* The difference left as computed.
ClampNone(x) == x

\* main, line 156: if priorityWei.Sign() < 0 { priorityWei = mathbig.NewInt(0) }
ClampNonNegative(x) == IF x < 0 THEN 0 ELSE x

\* main, lines 155-156.
PriorityWei(eff, base) == ClampNonNegative(eff - base)

\* main, lines 166-170: price times gas used and the division by 1e18, both in
\* big.Float at the precision of their operands, then the nearest float64.
CostEth(eff, gasUsed) ==
    LET costWeiF == Round(eff * gasUsed, 1, SetIntPrec(eff))
        costEthF == Round(costWeiF.num, costWeiF.den * Pow(10, EthDigits), SetIntPrec(eff))
    IN  Float64(costEthF)

\* The address typespkg.Sender recovers when it succeeds.
SenderHex == << "C", "d" >>

\* The address taken whatever typespkg.Sender returned.
FromUnchecked(senderOk) == ToLower(SenderHex)

\* main, lines 134-142: from stays "" unless the sender is recovered.
From(senderOk) == IF senderOk THEN ToLower(SenderHex) ELSE <<>>

\* main, lines 171-185: the payload map (hash, block number and timestamp, which
\* are copied from the chain, left out).
Payload(in) ==
    LET eff  == EffPriceWei(in.recPrice, in.txPrice)
        base == in.baseFee
    IN  [ tenantId |-> tenant,
          contract |-> RecipientKey(in.to),
          from |-> From(in.senderOk),
          to |-> RecipientKey(in.to),
          methodSignature |-> MethodSig(in.data),
          gasUsed |-> in.gasUsed,
          effectiveGasPriceGwei |-> QuoFloat64(eff, GweiDigits),
          baseFeeGwei |-> QuoFloat64(base, GweiDigits),
          priorityFeeGwei |-> QuoFloat64(PriorityWei(eff, base), GweiDigits),
          costEth |-> CostEth(eff, in.gasUsed) ]

\* A ProducerMessage field left unset: a nil Encoder.
NoKey == <<>>

\* main, line 187: &sarama.ProducerMessage{Topic: topic, Value: sarama.ByteEncoder(value)}
ProducerMessage(t, value) == [topic |-> t, key |-> NoKey, value |-> value]

\* First bytes of the call data served; byte i of one is i times its first byte.
SampleBytes == {10, 171}

\* tx.Data(): byte strings of every length up to MaxDataLen.
CallData ==
    { [i \in 1..n |-> (first * i) % 256] : first \in SampleBytes, n \in 0..MaxDataLen }

\* The (transaction, receipt, block) triples an event is built from.
EventInputs ==
    [ to : RecipientHex, data : CallData,
      recPrice : {NoEffectivePrice} \cup 0..MaxWei, txPrice : 0..MaxWei,
      baseFee : {NoBaseFee} \cup 0..MaxWei, gasUsed : 0..MaxGas, senderOk : BOOLEAN ]

\* main, lines 134-188: what becomes of one triple.
Outcome(in) ==
    IF SubPanics(in.baseFee)
       THEN [status |-> "panic", msg |-> NoMessage]
       ELSE [status |-> "sent", msg |-> ProducerMessage(topic, Payload(in))]

\* main, lines 134-188, for one watched transaction whose receipt was obtained:
\* the fields are computed and the message is handed to the producer, unless the
\* subtraction panics.
PublishEvent ==
    /\ ein # NoInput
    /\ eout.status = "none"
    /\ eout' = Outcome(ein)
    /\ UNCHANGED << pc, cfgVars, targets, scanVars, subVars, histVars, traceVars, ein,
                    ghostVars, authVars >>

\* One transaction at line 134 of a configured process, any triple.
InitEvent ==
    /\ pc = "lookup"
    /\ env = FullEnvironment
    /\ broker = getenv(FullEnvironment, "KAFKA_BROKER", "kafka:9092")
    /\ topic = getenv(FullEnvironment, "KAFKA_TOPIC", "onchain-gas")
    /\ rpcURL = getenv(FullEnvironment, "ETH_RPC_URL", "")
    /\ tenant = getenv(FullEnvironment, "TENANT_ID", "")
    /\ targets = EmptyMap
    /\ head = 0 /\ last = 0 /\ bn = 0 /\ blk = NoBlock /\ ti = 0 /\ rd = NoRead
    /\ spc = "off" /\ smsg = NoMsg /\ consumed = 0 /\ marked = 0
    /\ started = -1 /\ maxHead = 0
    /\ requested = <<>> /\ published = <<>> /\ scanned = <<>>
    /\ snap = {} /\ rmBefore = {} /\ rmSince = {}
    /\ boot = "pending" /\ failed = {} /\ fatalAt = "" /\ sendFailed = {}
    /\ regTrace = <<>> /\ watching = {} /\ received = <<>> /\ markTrace = <<>>
    /\ tracing = FALSE
    /\ ein \in EventInputs
    /\ eout = NoOutput
    /\ nonceStore = EmptyMap /\ issues = <<>> /\ verifs = <<>> /\ checks = 0

NextEvent == PublishEvent

SpecEvent == InitEvent /\ [][NextEvent]_vars

\* ------------------------------------------------- API service: sign-in
\* Bounds of the sign-in requests made.
MaxIssues == 2
MaxVerifies == 2

\* Addresses as requests and signed messages spell them: one wallet in two
\* spellings, and another wallet.
AuthAddresses == { << "A", "b" >>, << "a", "b" >>, << "c", "d" >> }

\* Values crypto.randomBytes(16).toString('hex') may return.
NonceValues == { "n1", "n2" }

\* nonceStore.get of an address that has no entry.
Undefined == ""

\* nonceStore.get(address)
StoreGet(m, address) == IF address \in DOMAIN m THEN m[address] ELSE Undefined

\* Addresses as signed messages carry them (mixed case).
SignerAddresses == { << "A", "b" >>, << "c", "D" >> }

\* The signed messages posted to /auth/verify; sigOk is whether
\* siweMessage.verify accepts the signature.
AuthMessages ==
    [ address : SignerAddresses, nonce : NonceValues, sigOk : {TRUE} ]
        \cup { [ address |-> << "A", "b" >>, nonce |-> "n1", sigOk |-> FALSE ] }

\* The nonce left in the store after a successful check.
ConsumeKeep(m, address) == m

\* part_000, line 76: nonceStore.delete(address)
Consume(m, address) == MapDelete(m, address)

\* part_000, line 73: !expectedNonce || expectedNonce !== fields.data.nonce
InvalidNonce(expected, nonce) == expected = Undefined \/ expected # nonce

\* Index in issues of the nonce most recently issued for an address; 0 if none.
LastIssue(address) ==
    LET S == { j \in DOMAIN issues : issues[j].address = address }
    IN  IF S = {} THEN 0 ELSE CHOOSE j \in S : \A k \in S : k <= j

\* part_000, lines 57-63: POST /auth/nonce.  Without an address the answer is 400
\* and nothing is stored.
AuthNonce ==
    /\ Len(issues) < MaxIssues
    /\ \E address \in AuthAddresses, nonce \in NonceValues :
          /\ nonceStore' = MapSet(nonceStore, ToLower(address), nonce)
          /\ issues' = Append(issues, [address |-> ToLower(address), nonce |-> nonce])
    /\ UNCHANGED << pc, cfgVars, targets, scanVars, subVars, histVars, traceVars, evVars,
                    ghostVars, verifs, checks >>

\* part_000, lines 66-70: POST /auth/verify arrives and waits for siweMessage.verify.
VerifyStart ==
    /\ Len(verifs) < MaxVerifies
    /\ \E m \in AuthMessages :
          verifs' = Append(verifs, [msg |-> m, stage |-> "siwe", issue |-> 0, ord |-> 0])
    /\ UNCHANGED << pc, cfgVars, targets, scanVars, subVars, histVars, traceVars, evVars,
                    ghostVars, nonceStore, issues, checks >>

\* part_000, lines 70-76 and 87-89: siweMessage.verify settles.  A rejected
\* signature is answered 400 'SIWE verification failed'; otherwise the nonce is
\* looked up, compared and deleted in one turn of the event loop, and the handler
\* waits for the users collection.
VerifyCheck ==
    /\ \E i \in DOMAIN verifs :
          /\ verifs[i].stage = "siwe"
          /\ LET m == verifs[i].msg
                 address == ToLower(m.address)
                 expectedNonce == StoreGet(nonceStore, address)
             IN  IF ~m.sigOk
                    THEN /\ verifs' = [verifs EXCEPT ![i].stage = "failed"]
                         /\ UNCHANGED << nonceStore, checks >>
                    ELSE /\ checks' = checks + 1
                         /\ IF InvalidNonce(expectedNonce, m.nonce)
                               THEN /\ verifs' = [verifs EXCEPT ![i].stage = "invalid nonce",
                                                                ![i].issue = LastIssue(address),
                                                                ![i].ord = checks']
                                    /\ UNCHANGED nonceStore
                               ELSE /\ verifs' = [verifs EXCEPT ![i].stage = "db",
                                                                ![i].issue = LastIssue(address),
                                                                ![i].ord = checks']
                                    /\ nonceStore' = Consume(nonceStore, address)
    /\ UNCHANGED << pc, cfgVars, targets, scanVars, subVars, histVars, traceVars, evVars,
                    ghostVars, issues >>

\* part_000, lines 78-89: usersCol.updateOne settles; the token is signed and
\* returned, or the rejection is answered 400.
VerifyFinish ==
    /\ \E i \in DOMAIN verifs :
          /\ verifs[i].stage = "db"
          /\ \E ok \in BOOLEAN :
                verifs' = [verifs EXCEPT ![i].stage = IF ok THEN "token" ELSE "failed after nonce"]
    /\ UNCHANGED << pc, cfgVars, targets, scanVars, subVars, histVars, traceVars, evVars,
                    ghostVars, nonceStore, issues, checks >>

InitAuth == StartState(FullEnvironment, FALSE)

NextAuth == AuthNonce \/ VerifyStart \/ VerifyCheck \/ VerifyFinish

SpecAuth == InitAuth /\ [][NextAuth]_vars

\* ================================================================ claims
\* The initial head has been read: main is in (or has left) the scan loop.
Scanning == started >= 0

\* C1 (as the spec states it): in every state of the scan loop the cursor is at
\* most the chain head most recently read.
C1_CursorAtMostLatestHead == Scanning => last <= head

\* C1 (amended): in every state of the scan loop the cursor is at most the highest
\* chain head read so far, and no step ever decreases the cursor.
C1_CursorBoundedMonotone ==
    /\ [](Scanning => last <= maxHead)
    /\ [][last' >= last]_vars

\* C1 witness: the cursor has advanced and a later poll read a lower head.
C1_Witness == pc = "poll" /\ last > started /\ head < last /\ last = maxHead

\* Block number the range loop has reached: everything up to it has been requested.
RequestedUpTo ==
    IF pc = "fetch" THEN bn - 1
    ELSE IF pc \in {"tx", "lookup", "crashed"} THEN bn
    ELSE last

\* C2: the blocks fetched by number are exactly started+1, started+2, ... in this
\* order, each once, up to the block the range loop has reached; when the cursor is
\* set, every number up to it has been requested.
C2_EachBlockOnceAscending ==
    Scanning =>
        /\ \A i \in DOMAIN requested : requested[i] = started + i
        /\ Len(requested) = RequestedUpTo - started

\* C2 witness: a range of two blocks was requested and the cursor set to its end.
C2_Witness == pc = "poll" /\ last = started + 2 /\ requested = << started + 1, started + 2 >>

\* C3: with the process started at head N, no block <= N is fetched by number and
\* no event of a block <= N is published.
C3_NoBackfill ==
    Scanning =>
        /\ \A i \in DOMAIN requested : requested[i] > started
        /\ \A i \in DOMAIN published : published[i].blockNumber > started

\* C3 witness: started at head 1 with the contract watched, and an event published.
C3_Witness == started = 1 /\ published # <<>> /\ requested # <<>>

\* C4: publish calls for one contract are made in block order, and within a block
\* in transaction order.
C4_PerContractOrder ==
    \A i, j \in DOMAIN published :
        (i < j /\ published[i].contract = published[j].contract) =>
            \/ published[i].blockNumber < published[j].blockNumber
            \/ /\ published[i].blockNumber = published[j].blockNumber
               /\ published[i].txIndex < published[j].txIndex

\* C4 witness: one contract has events from two blocks and two events from one block.
C4_Witness ==
    /\ \E i, j \in DOMAIN published :
          /\ i < j /\ published[i].contract = published[j].contract
          /\ published[i].blockNumber < published[j].blockNumber
    /\ \E i, j \in DOMAIN published :
          /\ i < j /\ published[i].contract = published[j].contract
          /\ published[i].blockNumber = published[j].blockNumber

\* Publish calls made for transaction idx of the block being scanned.
PublishCalls(idx) ==
    Cardinality({ k \in DOMAIN published :
                    published[k].blockNumber = blk.number /\ published[k].txIndex = idx })

\* Whether the registry held e's recipient when it was checked.  A read that
\* overlapped a write of the same key may legitimately see the key either way, so
\* the value read counts as the registry's; otherwise the key's membership did not
\* change during the read.
WatchedWhenChecked(e) == IF e.same THEN e.found ELSE e.present

\* C5: for every transaction examined, exactly one publish call when it has a
\* recipient that was in the registry when checked and its receipt was obtained,
\* and none otherwise.
C5_OnePublishPerMatch ==
    \A i \in DOMAIN scanned :
        LET e == scanned[i] IN
        PublishCalls(e.idx) =
            IF e.to # NoRecipient /\ WatchedWhenChecked(e) /\ e.receipt = "ok" THEN 1 ELSE 0

\* C6: a remove applied before a block was fetched leaves the block without a
\* match for the address, and a remove applied after the block was fetched does
\* not stop the block's transactions to the address from matching.  Stated for the
\* reads that overlap no write of the map.
C6_RemovalDecidedAtFetch ==
    \A i \in DOMAIN scanned :
        LET e == scanned[i] IN
        (e.to # NoRecipient /\ e.clean) =>
            /\ e.rmBefore => ~e.found
            /\ e.rmAfter => e.found

\* C7: the scanner's read of the registry never overlaps a write by the consumer.
C7_RegistryAccessExclusive == ~(pc = "lookup" /\ spc = "apply")

\* C8: add(a) then remove(a) leaves a absent; a second add(a) changes nothing;
\* remove(a) of an absent a changes nothing; the handler goes on to mark the
\* message after each of them.
C8_AddRemoveIdempotent ==
    /\ \A i \in DOMAIN regTrace :
          LET t == regTrace[i] IN
          /\ (t.action = "remove" /\ WatchKey(t.contract) \notin DOMAIN t.before)
                => t.after = t.before
          /\ (i > 1 /\ regTrace[i - 1].contract = t.contract) =>
                /\ t.before = regTrace[i - 1].after
                /\ (regTrace[i - 1].action = "add" /\ t.action = "remove")
                      => ~Contains(t.after, t.contract)
                /\ (regTrace[i - 1].action = "add" /\ t.action = "add")
                      => t.after = t.before
    /\ spc = "idle" => marked >= Len(regTrace)

\* C8 witness: an add followed by a remove of the same address has been applied
\* and marked.
C8_Witness ==
    /\ Len(regTrace) = 2 /\ spc = "idle"
    /\ regTrace[1].action = "add" /\ regTrace[2].action = "remove"
    /\ regTrace[1].contract = regTrace[2].contract

\* C9: every key of the registry is lower-case, every key the scanner looks up is
\* lower-case, and a recipient is found exactly when a registered watch equals it
\* up to letter case.
C9_KeysLowerCase ==
    /\ \A k \in DOMAIN targets : IsLower(k)
    /\ \A r \in RecipientHex :
          /\ IsLower(RecipientKey(r))
          /\ Contains(targets, r) <=> \E w \in watching : EqualFold(w, r)

\* C9 witness: a recipient in mixed case is found through a watch registered in
\* another spelling.
C9_Witness ==
    \E r \in RecipientHex :
        /\ ~IsLower(r) /\ Contains(targets, r)
        /\ r \notin watching
        /\ \E w \in watching : ~IsLower(w)

\* C10: with any of the four required values absent the process does not get past
\* reading its configuration, and no default stands in for a required value.
C10_RefusesWithoutRequired ==
    /\ (\E k \in RequiredKeys : env[k] = "") => pc \in {"config", "fatal"}
    /\ pc # "config" => broker = env["KAFKA_BROKER"] /\ topic = env["KAFKA_TOPIC"]

\* C11: once the scan loop is entered the process neither exits nor is aborted,
\* whatever the head poll, a block fetch, a transaction, a receipt fetch, the fee
\* computation (also on a block without a base fee) or a publish yields.
C11_LoopNeverTerminates == Scanning => Alive

\* An event was built and handed to the producer.
Sent == eout.status = "sent"

\* The effective price the event was computed from.
EffPrice == EffPriceWei(ein.recPrice, ein.txPrice)

\* C12: the published priority fee is the conversion of max(0, effective price -
\* base fee): 0 when the price equals the base fee, 0 when it is below it, positive
\* when it is above, and never negative.
C12_PriorityFeeClamped ==
    Sent =>
        LET prio == eout.msg.value.priorityFeeGwei IN
        /\ prio = QuoFloat64(Max(0, EffPrice - ein.baseFee), GweiDigits)
        /\ prio.num >= 0
        /\ EffPrice <= ein.baseFee => prio.num = 0
        /\ EffPrice > ein.baseFee => prio.num > 0

\* C12 witness: an event published for a price below the base fee, with fee 0.
C12_Witness ==
    /\ Sent /\ EffPrice < ein.baseFee
    /\ eout.msg.value.priorityFeeGwei.num = 0

\* C13: the published cost is exactly effective price x gas used divided by
\* 10^decimals, as a fixed-point division of integers gives it.
C13_CostExact ==
    Sent =>
        LET cost == eout.msg.value.costEth IN
        cost.num * Pow(10, EthDigits) = EffPrice * ein.gasUsed * cost.den

\* C14: the message of every published event carries a partition key equal to the
\* event's contract address.
C14_KeyedByContract == Sent => eout.msg.key = eout.msg.value.contract

\* Value of a lower-case hex digit.
HexValue(c) == CHOOSE v \in 0..15 : HexDigits[v + 1] = c

\* The bytes a string of hex digit pairs stands for.
RECURSIVE DecodeHex(_)
DecodeHex(h) ==
    IF h = <<>> THEN <<>>
    ELSE << 16 * HexValue(h[1]) + HexValue(h[2]) >> \o DecodeHex(SubSeq(h, 3, Len(h)))

\* C15: with at least 4 bytes of call data the selector is "0x" followed by 8 hex
\* digits that stand for exactly the first 4 bytes; with fewer it is empty.
C15_SelectorFirstFourBytes ==
    Sent =>
        LET sig == eout.msg.value.methodSignature IN
        IF Len(ein.data) >= 4
           THEN /\ Len(sig) = 10
                /\ SubSeq(sig, 1, 2) = << "0", "x" >>
                /\ DecodeHex(SubSeq(sig, 3, 10)) = SubSeq(ein.data, 1, 4)
           ELSE sig = <<>>

\* C15 witness: an event for call data of 5 bytes, 0a 14 1e 28 32.
C15_Witness ==
    /\ Sent
    /\ Len(ein.data) = 5 /\ ein.data[5] # ein.data[4]
    /\ eout.msg.value.methodSignature = << "0", "x", "0", "a", "1", "4", "1", "e", "2", "8" >>

\* C16: a request of another tenant is never applied to the registry (the registry
\* is what the last applied request of this tenant left), and after it the handler
\* is back waiting for the next message.
C16_OtherTenantIgnored ==
    /\ \A i \in DOMAIN regTrace : received[regTrace[i].seq].tenantId = tenant
    /\ regTrace # <<>> => targets = regTrace[Len(regTrace)].after
    /\ (received # <<>> /\ received[Len(received)].tenantId # tenant)
          => spc = "idle" /\ smsg = NoMsg

\* C16 witness: another tenant's add was dropped, and the add of this tenant that
\* came after it was applied and marked.
C16_Witness ==
    /\ Len(received) = 2 /\ spc = "idle"
    /\ received[1].tenantId = "t2" /\ received[1].action = "add"
    /\ Len(regTrace) = 1 /\ regTrace[1].seq = 2
    /\ markTrace = << 2 >>

\* C17: every marked add or remove had its write of the registry applied before it
\* was marked.
C17_MarkedAfterApplied ==
    \A k \in DOMAIN markTrace :
        received[markTrace[k]].action \in {"add", "remove"}
            => \E i \in DOMAIN regTrace :
                  /\ regTrace[i].seq = markTrace[k]
                  /\ regTrace[i].action = received[markTrace[k]].action
                  /\ regTrace[i].after = ApplyAction(regTrace[i].before, regTrace[i].action,
                                                     WatchKey(regTrace[i].contract))

\* C17 witness: a remove is applied and not yet marked, after an add that is marked.
C17_Witness ==
    /\ spc = "mark" /\ smsg.action = "remove"
    /\ markTrace = << 1 >> /\ Len(regTrace) = 2
    /\ Len(received) = 2 /\ received[1].action = "add"

\* C18: the bootstrap is over before the initial head is read; when it failed it
\* did not end the process, and the registry is what the watch requests applied
\* since have made of an empty map.
C18_BootstrapFailureTolerated ==
    /\ Scanning => boot # "pending"
    /\ boot = "failed" =>
          /\ pc # "bootstrap" /\ fatalAt # "bootstrap"
          /\ targets = IF regTrace = <<>> THEN EmptyMap ELSE regTrace[Len(regTrace)].after
          /\ regTrace # <<>> => regTrace[1].before = EmptyMap

\* C18 witness: the bootstrap failed, main is in the scan loop, and a watch added
\* by a request since is in the registry the scanner reads.
C18_Witness ==
    /\ boot = "failed" /\ pc = "poll"
    /\ regTrace # <<>> /\ regTrace[1].action = "add"
    /\ Contains(targets, << "A", "b" >>)

\* C19: whenever a head poll has found a head above the cursor, the cursor
\* eventually equals that head.
C19_CursorReachesHead ==
    \A h \in 1..MaxHead : (pc = "fetch" /\ head = h) ~> (last = h)

\* C20: a block whose fetch failed has no event and was requested once; every later
\* block the range loop has reached was requested; and at the end of the range the
\* cursor stands at the head of the range.
C20_OnlyFailedBlockSkipped ==
    /\ \A n \in failed :
          /\ \A i \in DOMAIN published : published[i].blockNumber # n
          /\ Cardinality({ i \in DOMAIN requested : requested[i] = n }) = 1
          /\ blk.number # n
          /\ \A m \in (n + 1)..RequestedUpTo : \E i \in DOMAIN requested : requested[i] = m
    /\ (pc = "poll" /\ failed # {}) =>
          /\ last = maxHead
          /\ \A n \in failed : n <= last

\* C20 witness: the fetch of block 1 failed, block 2 was fetched and gave an event,
\* and the cursor was set to 2.
C20_Witness ==
    /\ failed = {1} /\ pc = "poll" /\ last = 2
    /\ requested = << 1, 2 >>
    /\ \E i \in DOMAIN published : published[i].blockNumber = 2

\* C21: the transactions of a block are examined one after the other, none left
\* out; one whose receipt fetch failed has no publish call, and one examined after
\* it whose receipt was obtained has its publish call.
C21_ReceiptFailureSkipsOne ==
    /\ pc \in {"tx", "lookup"} => Len(scanned) = ti - 1
    /\ \A i \in DOMAIN scanned :
          /\ scanned[i].idx = i
          /\ scanned[i].receipt = "err" => PublishCalls(i) = 0
          /\ scanned[i].receipt = "ok" => PublishCalls(i) = 1

\* C21 witness: the first transaction's receipt fetch failed and the second
\* transaction of the block was published.
C21_Witness ==
    /\ Len(scanned) = 2
    /\ scanned[1].receipt = "err" /\ scanned[2].receipt = "ok"
    /\ PublishCalls(1) = 0 /\ PublishCalls(2) = 1

\* A step of main taken from the head poll (no step of the consumer goroutine).
PollStep == pc = "poll" /\ subVars' = subVars

\* C22: a poll whose head read fails, or reads a head at or below the cursor,
\* leaves the cursor and the registry as they are, fetches no block by number,
\* publishes nothing and stays at the head poll; only a head above the cursor
\* starts a range.
C22_IdlePollChangesNothing ==
    [][ PollStep =>
          /\ head' <= last =>
                /\ last' = last /\ targets' = targets
                /\ requested' = requested /\ published' = published
                /\ pc' = "poll"
          /\ pc' # "poll" => pc' = "fetch" /\ head' > last /\ bn' = last + 1 ]_vars

\* C22 witness: after the cursor advanced, a poll read a head below it and the
\* loop is polling again, the cursor and the blocks requested as they were.
C22_Witness ==
    /\ pc = "poll" /\ head < last /\ last = started + 1
    /\ requested = << last >>

\* Publish calls made for transaction idx of block n.
SendCalls(n, idx) ==
    Cardinality({ k \in DOMAIN published :
                    published[k].blockNumber = n /\ published[k].txIndex = idx })

\* C23: an event whose send failed was sent once and not again; the scanner went
\* on with the next transaction, and at the end of the range the cursor stands at
\* the head of the range, past the event's block.  No transaction has more than
\* one publish call.
C23_NoRetryNoRollback ==
    /\ \A k, j \in DOMAIN published :
          (published[k].blockNumber = published[j].blockNumber
              /\ published[k].txIndex = published[j].txIndex) => k = j
    /\ \A f \in sendFailed :
          /\ SendCalls(f.blockNumber, f.txIndex) = 1
          /\ (pc = "tx" /\ blk.number = f.blockNumber) =>
                /\ ti > f.txIndex
                /\ scanned[f.txIndex].receipt = "ok"
          /\ pc = "poll" => last = maxHead /\ last >= f.blockNumber

\* C23 witness: the send of the first event of block 1 failed, the second
\* transaction of the block was published too, and the cursor was set to 1.
C23_Witness ==
    /\ sendFailed = {[blockNumber |-> 1, txIndex |-> 1]}
    /\ SendCalls(1, 1) = 1 /\ SendCalls(1, 2) = 1
    /\ pc = "poll" /\ last = 1 /\ head = 1

\* C24: a process that log.Fatal ended never read its initial head; one that has
\* not read it requested no block by number, published nothing and is not in the
\* scan loop; and a failed dial, producer or initial head read ended the process.
C24_StartupFailureIsFatal ==
    /\ pc = "fatal" => started = -1
    /\ started = -1 =>
          /\ requested = <<>> /\ published = <<>>
          /\ pc \notin {"poll", "fetch", "tx", "lookup", "crashed"}
    /\ fatalAt # "" => pc = "fatal"

\* C24 witness: the initial head read failed, with the consumer already running.
C24_Witness ==
    /\ pc = "fatal" /\ fatalAt = "inithead" /\ spc # "off"
    /\ requested = <<>> /\ published = <<>>

\* The same transaction with its sender recovered.
Recovered == [ein EXCEPT !.senderOk = TRUE]

\* C25: a transaction whose sender is not recovered is published exactly when the
\* same transaction with its sender recovered is, with an empty sender and every
\* other field equal.
C25_EmptySenderOnly ==
    (eout.status # "none" /\ ~ein.senderOk) =>
        /\ eout.status = Outcome(Recovered).status
        /\ Sent =>
              /\ eout.msg.value.from = <<>>
              /\ Outcome(Recovered).msg.value.from # <<>>
              /\ eout.msg = [Outcome(Recovered).msg EXCEPT !.value.from = <<>>]

\* C25 witness: an event published with an empty sender, a selector and a cost.
C25_Witness ==
    /\ Sent /\ ~ein.senderOk
    /\ eout.msg.value.from = <<>>
    /\ eout.msg.value.methodSignature # <<>>
    /\ eout.msg.value.costEth.num > 0

\* The verify request passed the nonce check.
Passed(v) == v.stage \in {"db", "token", "failed after nonce"}

\* C26: a token is only returned to a request that passed the nonce check; a
\* request passes it only with an accepted signature and the nonce most recently
\* issued for its address; no two requests pass it on the same issued nonce; and
\* a request checked after one that passed, with no nonce issued for the address
\* in between, is answered 'Invalid nonce'.
C26_NonceSingleUse ==
    /\ \A i \in DOMAIN verifs :
          LET v == verifs[i] IN
          Passed(v) =>
              /\ v.msg.sigOk
              /\ v.issue > 0
              /\ issues[v.issue].address = ToLower(v.msg.address)
              /\ issues[v.issue].nonce = v.msg.nonce
    /\ \A i, j \in DOMAIN verifs :
          LET v == verifs[i]
              w == verifs[j]
          IN  /\ (i # j /\ Passed(v) /\ Passed(w)
                    /\ ToLower(v.msg.address) = ToLower(w.msg.address))
                     => v.issue # w.issue
              /\ (Passed(v) /\ w.ord > v.ord /\ w.issue = v.issue
                    /\ ToLower(v.msg.address) = ToLower(w.msg.address))
                     => w.stage = "invalid nonce"
    /\ \A a \in DOMAIN nonceStore :
          /\ LastIssue(a) > 0
          /\ nonceStore[a] = issues[LastIssue(a)].nonce

\* C26 witness: a signed message earned a token and its replay was answered
\* 'Invalid nonce'.
C26_Witness ==
    /\ Len(verifs) = 2
    /\ verifs[1].msg = verifs[2].msg
    /\ verifs[1].stage = "token" /\ verifs[2].stage = "invalid nonce"
    /\ verifs[2].ord > verifs[1].ord

====
